---- MODULE Spec2Model ----
(***************************************************************************)
(* A model of dirdiff.py (the modified filecmp): the file equality oracle  *)
(* cmp with its process-wide cache, cmpfiles, the dircmp node with its     *)
(* lazily computed attributes (phase0..phase4) and report_full_closure.    *)
(*                                                                         *)
(* A path is a sequence of names.  A file's content is its size and the    *)
(* set of positions (1-based) that hold the byte 1; every other byte is 0. *)
(***************************************************************************)
EXTENDS Integers, Sequences, FiniteSets, TLC

VARIABLES
    platform,   \* os.name: "posix" or "nt"; decides os.path.normcase
    fs,         \* the file system: path -> entry (fixed during a run)
    _cache,     \* dirdiff._cache: key <<f1, f2, s1, s2>> -> outcome
    call,       \* the last call of cmp or clear_cache and what it did
    cf,         \* the last call of cmpfiles and what it did
    cursor,     \* SpecCache: index of the next fresh pair of paths
    nodes,      \* the dircmp objects: relative path -> object
    acc,        \* the last read of a computed attribute and how it ended
    walk        \* report_full_closure: its stack and what it wrote

vars == <<platform, fs, _cache, call, cf, cursor, nodes, acc, walk>>

-----------------------------------------------------------------------------
(* Bounds of the model. *)

\* small file sizes of the oracle's files are 0..MaxSize
MaxSize == 5
\* modification times are 1..MaxMtime
MaxMtime == 2
\* SpecCache compares the files f00 .. f(NumPaths-1), pairwise
NumPaths == 11
\* sizes of the files in a compared directory are 0..MaxDirSize
MaxDirSize == 2
\* a phase of one dircmp object is invoked at most MaxRuns times
MaxRuns == 2

(* Program constants. *)

\* BUFSIZE = 8*1024
BUFSIZE == 8192
\* "if len(_cache) > 100"
CacheLimit == 100

Min(a, b) == IF a < b THEN a ELSE b
Max(a, b) == IF a > b THEN a ELSE b

-----------------------------------------------------------------------------
(* The file system. *)

\* no directory entry at this path: os.stat raises FileNotFoundError
NoEntry ==
    [kind |-> "none", stat |-> FALSE, size |-> 0, mtime |-> 0,
     open |-> FALSE, ones |-> {}]

\* a regular file of n bytes; open: whether open(path, 'rb') succeeds
RegEntry(n, o, m, op) ==
    [kind |-> "REG", stat |-> TRUE, size |-> n, mtime |-> m,
     open |-> op, ones |-> o]

\* a directory; open: whether os.listdir succeeds
DirEntry(op) ==
    [kind |-> "DIR", stat |-> TRUE, size |-> 0, mtime |-> 1,
     open |-> op, ones |-> {}]

\* neither a regular file nor a directory (a fifo, a device)
OtherEntry ==
    [kind |-> "OTHER", stat |-> TRUE, size |-> 0, mtime |-> 1,
     open |-> FALSE, ones |-> {}]

\* a name that is listed but cannot be stat'ed (a dangling link)
NoStatEntry ==
    [kind |-> "REG", stat |-> FALSE, size |-> 0, mtime |-> 1,
     open |-> FALSE, ones |-> {}]

\* ntpath.normcase lowercases; of the names of this model only "A" changes
Lower(n) == IF n = "A" THEN "a" ELSE n

\* os.path.normcase: the identity on posix, lowercasing on nt
normcase(n) == IF platform = "nt" THEN Lower(n) ELSE n

\* the entries a path names: on nt the lookup ignores case
Resolve(path) ==
    IF platform = "posix"
        THEN {q \in {path} \cap DOMAIN fs : fs[q].kind # "none"}
        ELSE {q \in DOMAIN fs :
                /\ Len(q) = Len(path)
                /\ \A i \in 1..Len(q) : normcase(q[i]) = normcase(path[i])
                /\ fs[q].kind # "none"}

\* os.stat(path) succeeds
StatOk(path) == \E q \in Resolve(path) : fs[q].stat

\* what os.stat(path) and open(path) see
EntryOf(path) == fs[CHOOSE q \in Resolve(path) : fs[q].stat]

-----------------------------------------------------------------------------
(* cmp and its cache. *)

\* the signature of a stat result: (S_IFMT(st_mode), st_size, st_mtime)
_sig(st) == <<st.kind, st.size, st.mtime>>

\* a variant with open bounds: s1/s2 > 0.8 and s1/s2 < 1.25
IsSimilarOpen(s1, s2) == 5 * s1 > 4 * s2 /\ 4 * s1 < 5 * s2

\* s1/s2 >= 0.8 and s1/s2 <= 1.25, for s2 > 0, in exact arithmetic
_is_similar(s1, s2) == 5 * s1 >= 4 * s2 /\ 4 * s1 <= 5 * s2

\* fp.read(bufsize), the k-th call (k = 0, 1, ...): the next chunk
ReadChunk(e, k) ==
    LET start == k * BUFSIZE
        n == Min(BUFSIZE, Max(0, e.size - start))
    IN  [len |-> n,
         ones |-> {p - start : p \in {q \in e.ones : q > start /\ q <= start + n}}]

RECURSIVE DoCmpFrom(_, _, _)
\* the loop of _do_cmp from its k-th round: the outcome and the rounds read
DoCmpFrom(e1, e2, k) ==
    LET b1 == ReadChunk(e1, k)
        b2 == ReadChunk(e2, k)
    IN  IF b1 # b2 THEN [ret |-> FALSE, reads |-> k + 1]
        ELSE IF b1.len = 0 THEN [ret |-> TRUE, reads |-> k + 1]
        ELSE DoCmpFrom(e1, e2, k + 1)

\* a variant that compares the first chunks only
DoCmpFirstChunk(e1, e2) ==
    [ret |-> ReadChunk(e1, 0) = ReadChunk(e2, 0), reads |-> 1]

\* _do_cmp(f1, f2), both files opened
_do_cmp(e1, e2) == DoCmpFrom(e1, e2, 0)

EmptyCache == [k \in {} |-> FALSE]

\* _cache[key] = outcome
CachePut(c, key, outcome) ==
    [k \in DOMAIN c \cup {key} |-> IF k = key THEN outcome ELSE c[k]]

\* "if len(_cache) > 100: clear_cache()"
CacheBound(c) == IF Cardinality(DOMAIN c) > CacheLimit THEN EmptyCache ELSE c

\* the result of a call: exc is "none" or the exception that left it,
\* reads the rounds of reading, looked whether _cache.get was reached
CmpResult(exc, ret, c, reads, looked) ==
    [exc |-> exc, ret |-> ret, cache |-> c, reads |-> reads, looked |-> looked]

\* lines 70-76 of cmp: the cache lookup, the comparison, the insert
CmpCached(c, f1, f2, e1, e2) ==
    LET key == <<f1, f2, _sig(e1), _sig(e2)>>
    IN  IF key \in DOMAIN c THEN CmpResult("none", c[key], c, 0, TRUE)
        ELSE IF ~(e1.open /\ e2.open) THEN CmpResult("OSError", FALSE, c, 0, TRUE)
        ELSE LET r == _do_cmp(e1, e2)
             IN  CmpResult("none", r.ret, CachePut(CacheBound(c), key, r.ret),
                           r.reads, TRUE)

\* a variant that requires equal signatures (type, size, modification time)
\* where cmp requires equal sizes
CmpFullSignature(c, f1, f2, shallow) ==
    IF ~StatOk(f1) \/ ~StatOk(f2) THEN CmpResult("OSError", FALSE, c, 0, FALSE)
    ELSE LET e1 == EntryOf(f1)
             e2 == EntryOf(f2)
         IN  IF e1.kind # "REG" \/ e2.kind # "REG"
                 THEN CmpResult("none", FALSE, c, 0, FALSE)
             ELSE IF shallow /\ e2.size = 0
                 THEN CmpResult("ZeroDivisionError", FALSE, c, 0, FALSE)
             ELSE IF shallow /\ _is_similar(e1.size, e2.size)
                 THEN CmpResult("none", TRUE, c, 0, FALSE)
             ELSE IF _sig(e1) # _sig(e2)
                 THEN CmpResult("none", FALSE, c, 0, FALSE)
             ELSE CmpCached(c, f1, f2, e1, e2)

\* cmp(f1, f2, shallow) with the cache c
cmp(c, f1, f2, shallow) ==
    IF ~StatOk(f1) \/ ~StatOk(f2) THEN CmpResult("OSError", FALSE, c, 0, FALSE)
    ELSE LET e1 == EntryOf(f1)
             e2 == EntryOf(f2)
         IN  IF e1.kind # "REG" \/ e2.kind # "REG"
                 THEN CmpResult("none", FALSE, c, 0, FALSE)
             ELSE IF shallow /\ e2.size = 0
                 THEN CmpResult("ZeroDivisionError", FALSE, c, 0, FALSE)
             ELSE IF shallow /\ _is_similar(e1.size, e2.size)
                 THEN CmpResult("none", TRUE, c, 0, FALSE)
             ELSE IF e1.size # e2.size
                 THEN CmpResult("none", FALSE, c, 0, FALSE)
             ELSE CmpCached(c, f1, f2, e1, e2)

NoCall ==
    [op |-> "none", f1 |-> <<>>, f2 |-> <<>>, shallow |-> FALSE,
     exc |-> "none", ret |-> FALSE, reads |-> 0, looked |-> FALSE]

\* the record of a call of cmp with outcome r
CallOutcome(f1, f2, shallow, r) ==
    /\ _cache' = r.cache
    /\ call' = [op |-> "cmp", f1 |-> f1, f2 |-> f2, shallow |-> shallow,
                exc |-> r.exc, ret |-> r.ret, reads |-> r.reads,
                looked |-> r.looked]

\* a caller calls cmp(f1, f2, shallow)
CmpCall(f1, f2, shallow) ==
    /\ CallOutcome(f1, f2, shallow, cmp(_cache, f1, f2, shallow))
    /\ UNCHANGED <<platform, fs, cf, nodes, acc, walk>>

\* clear_cache()
clear_cache ==
    /\ _cache' = EmptyCache
    /\ call' = [NoCall EXCEPT !.op = "clear_cache"]
    /\ UNCHANGED <<platform, fs, cf, cursor, nodes, acc, walk>>

-----------------------------------------------------------------------------
(* SpecCmp: cmp on two paths p and q of a fixed file system. *)

CmpPaths == {<<"p">>, <<"q">>}

\* the positions of a file of n bytes that may hold a 1: its last byte,
\* and for a file longer than a chunk its first byte too
MarkPos(n) == IF n = 0 THEN {} ELSE IF n > BUFSIZE - 1 THEN {1, n} ELSE {n}

CmpSizes == (0..MaxSize) \cup {BUFSIZE, BUFSIZE + 1}

\* the regular files of SpecCmp with their contents
CmpFiles(mtimes, opens) ==
    UNION {{RegEntry(n, o, m, op) :
                o \in SUBSET MarkPos(n), m \in mtimes, op \in opens} :
           n \in CmpSizes}

\* p: any content, readable or not; q: any content, any modification time.
\* cmp is called on (p, q) and on (q, p), so each role meets each case.
CmpEntriesP == {NoEntry, DirEntry(TRUE)} \cup CmpFiles({1}, BOOLEAN)
CmpEntriesQ == {NoEntry, DirEntry(TRUE)} \cup CmpFiles(1..MaxMtime, {TRUE})

NoAcc == [exc |-> "none", reads |-> 0, looked |-> FALSE]
NoWalk == [status |-> "idle", stack |-> <<>>, out |-> <<>>]
NoNodes == [p \in {} |-> 0]
NoCf ==
    [op |-> "none", shallow |-> FALSE, common |-> <<>>, exc |-> "none",
     same |-> <<>>, diff |-> <<>>, funny |-> <<>>, reads |-> 0,
     looked |-> FALSE]

InitCmp ==
    /\ platform = "posix"
    /\ fs \in {f \in [CmpPaths -> CmpEntriesP \cup CmpEntriesQ] :
                f[<<"p">>] \in CmpEntriesP /\ f[<<"q">>] \in CmpEntriesQ}
    /\ _cache = EmptyCache
    /\ call = NoCall
    /\ cf = NoCf
    /\ cursor = 0
    /\ nodes = NoNodes
    /\ acc = NoAcc
    /\ walk = NoWalk

\* a caller compares two of the paths, in either mode
CmpAny ==
    /\ \E f1 \in CmpPaths, f2 \in CmpPaths, shallow \in BOOLEAN :
          CmpCall(f1, f2, shallow)
    /\ UNCHANGED cursor

NextCmp == CmpAny \/ clear_cache

SpecCmp == InitCmp /\ [][NextCmp]_vars

-----------------------------------------------------------------------------
(* SpecCache: deep comparisons of many pairs of files, to fill the cache.   *)
(* The files f/0/0 .. are equal one-byte files; the caller compares the     *)
(* pairs in a fixed order (a fresh key each time), may repeat the           *)
(* comparison it made last (a cache hit), and may clear the cache.          *)

Digit == <<"0", "1", "2", "3", "4", "5", "6", "7", "8", "9">>

\* the i-th file, i in 0..NumPaths-1
FileName(i) == <<"f", Digit[(i \div 10) + 1], Digit[(i % 10) + 1]>>

CachePaths == {FileName(i) : i \in 0..(NumPaths - 1)}

\* the n-th pair of files, n in 0..NumPaths*NumPaths-1
PairAt(n) == <<FileName(n \div NumPaths), FileName(n % NumPaths)>>

InitCache ==
    /\ platform = "posix"
    /\ fs = [p \in CachePaths |-> RegEntry(1, {}, 1, TRUE)]
    /\ _cache = EmptyCache
    /\ call = NoCall
    /\ cf = NoCf
    /\ cursor = 0
    /\ nodes = NoNodes
    /\ acc = NoAcc
    /\ walk = NoWalk

\* cmp on the next pair, one that is not in the cache
CmpFresh ==
    /\ cursor < NumPaths * NumPaths
    /\ CmpCall(PairAt(cursor)[1], PairAt(cursor)[2], FALSE)
    /\ cursor' = cursor + 1

\* cmp on the pair compared last
CmpAgain ==
    /\ call.op = "cmp"
    /\ CmpCall(call.f1, call.f2, FALSE)
    /\ UNCHANGED cursor

NextCache == CmpFresh \/ CmpAgain \/ clear_cache

SpecCache == InitCache /\ [][NextCache]_vars

-----------------------------------------------------------------------------
(* cmpfiles. *)

\* os.path.join(a, x)
join(a, x) == Append(a, x)

InSeq(s, x) == \E i \in 1..Len(s) : s[i] = x
Range(s) == {s[i] : i \in 1..Len(s)}
NoDup(s) == \A i \in 1..Len(s) : \A j \in 1..Len(s) : s[i] = s[j] => i = j

\* _cmp(a, b, sh), from the outcome r of cmp(a, b, sh): 0 for equal, 1 for
\* different, 2 when cmp raised OSError
_cmp(r) == IF r.exc = "OSError" THEN 2 ELSE IF r.ret THEN 0 ELSE 1

\* res[_cmp(ax, bx, shallow)].append(x), r the outcome of the cmp in it: an
\* exception other than OSError leaves cmpfiles
Tally(res, x, r) ==
    [res EXCEPT
        !.exc = IF r.exc \in {"none", "OSError"} THEN "none" ELSE r.exc,
        !.same = IF r.exc \in {"none", "OSError"} /\ _cmp(r) = 0
                     THEN Append(@, x) ELSE @,
        !.diff = IF r.exc \in {"none", "OSError"} /\ _cmp(r) = 1
                     THEN Append(@, x) ELSE @,
        !.funny = IF r.exc \in {"none", "OSError"} /\ _cmp(r) = 2
                      THEN Append(@, x) ELSE @,
        !.cache = r.cache,
        !.reads = @ + r.reads,
        !.looked = @ \/ r.looked]

RECURSIVE CmpFilesFrom(_, _, _, _, _, _)
\* the loop of cmpfiles from the i-th name, res the three lists (and the
\* cache) so far
CmpFilesFrom(a, b, common, shallow, i, res) ==
    IF i > Len(common) \/ res.exc # "none" THEN res
    ELSE CmpFilesFrom(a, b, common, shallow, i + 1,
            Tally(res, common[i],
                  cmp(res.cache, join(a, common[i]), join(b, common[i]), shallow)))

\* cmpfiles(a, b, common, shallow) with the cache c
cmpfiles(c, a, b, common, shallow) ==
    CmpFilesFrom(a, b, common, shallow, 1,
                 [exc |-> "none", same |-> <<>>, diff |-> <<>>, funny |-> <<>>,
                  cache |-> c, reads |-> 0, looked |-> FALSE])

-----------------------------------------------------------------------------
(* The dircmp object. *)

DEFAULT_IGNORES ==
    <<"RCS", "CVS", "tags", ".git", ".hg", ".bzr", "_darcs", "__pycache__">>

\* [os.curdir, os.pardir]
DefaultHide == <<".", "..">>

\* the names of the model in the order of Python's string comparison
NameOrder == <<".git", "A", "a", "d", "e", "f">>
Rank(n) == CHOOSE i \in 1..Len(NameOrder) : NameOrder[i] = n

\* list.sort()
Sort(s) == SortSeq(s, LAMBDA x, y : Rank(x) < Rank(y))

Attrs ==
    {"left_list", "right_list", "common", "left_only", "right_only",
     "common_dirs", "common_files", "common_funny",
     "same_files", "diff_files", "funny_files", "subdirs"}

\* dircmp.methodmap: the phase that computes an attribute
methodmap(attr) ==
    CASE attr \in {"left_list", "right_list"} -> 0
      [] attr \in {"common", "left_only", "right_only"} -> 1
      [] attr \in {"common_dirs", "common_files", "common_funny"} -> 2
      [] attr \in {"same_files", "diff_files", "funny_files"} -> 3
      [] attr = "subdirs" -> 4

\* dircmp(a, b, ignore, hide): has is the set of computed attributes the
\* object holds; runs and done count, per phase, its invocations and its
\* completions
NewNode(a, b, ignore, hide) ==
    [left |-> a, right |-> b, ignore |-> ignore, hide |-> hide, has |-> {},
     left_list |-> <<>>, right_list |-> <<>>,
     common |-> <<>>, left_only |-> <<>>, right_only |-> <<>>,
     common_dirs |-> <<>>, common_files |-> <<>>, common_funny |-> <<>>,
     same_files |-> <<>>, diff_files |-> <<>>, funny_files |-> <<>>,
     subdirs |-> <<>>,
     runs |-> [k \in 0..4 |-> 0], done |-> [k \in 0..4 |-> 0]]

\* os.listdir(path) succeeds
CanList(path) ==
    StatOk(path) /\ EntryOf(path).kind = "DIR" /\ EntryOf(path).open

\* os.listdir(path): the names in the directory, here in descending order
\* (the order of os.listdir is arbitrary; phase0 sorts)
listdir(path) ==
    LET q == CHOOSE r \in Resolve(path) : fs[r].stat
        here == {n \in Range(NameOrder) :
                    join(q, n) \in DOMAIN fs /\ fs[join(q, n)].kind # "none"}
    IN  SortSeq(SelectSeq(NameOrder, LAMBDA n : n \in here),
                LAMBDA x, y : Rank(x) > Rank(y))

\* a variant that filters nothing
FilterNothing(flist, skip) == flist

\* _filter(flist, skip)
_filter(flist, skip) == SelectSeq(flist, LAMBDA x : ~InSeq(skip, x))

\* the outcome of a phase or of an attribute read: the object, the cache,
\* the exception that left it or "none", the children phase4 made
Res(nd, c, exc) ==
    [nd |-> nd, cache |-> c, exc |-> exc, reads |-> 0, looked |-> FALSE]

Started(nd, k) == [nd EXCEPT !.runs[k] = @ + 1]
Finished(nd, k) == [nd EXCEPT !.done[k] = @ + 1]

\* phase0: list both directories
phase0(nd, c) ==
    LET n0 == Started(nd, 0)
        skip == nd.hide \o nd.ignore
    IN  IF ~CanList(nd.left) THEN Res(n0, c, "OSError")
        ELSE LET n1 == [n0 EXCEPT !.left_list = _filter(listdir(nd.left), skip),
                                  !.has = @ \cup {"left_list"}]
             IN  IF ~CanList(nd.right) THEN Res(n1, c, "OSError")
                 ELSE Res(Finished(
                        [n1 EXCEPT !.left_list = Sort(@),
                                   !.right_list =
                                       Sort(_filter(listdir(nd.right), skip)),
                                   !.has = @ \cup {"right_list"}], 0),
                        c, "none")

\* __getattr__ for an attribute of phase0, when one is read
Get0(nd, c, attr) == IF attr \in nd.has THEN Res(nd, c, "none") ELSE phase0(nd, c)

\* dict(zip(map(os.path.normcase, list), list)): its keys in insertion order
DictKeys(list) ==
    LET first == SelectSeq([i \in 1..Len(list) |-> i],
                    LAMBDA i : \A j \in 1..(i - 1) :
                                  normcase(list[j]) # normcase(list[i]))
    IN  [n \in 1..Len(first) |-> normcase(list[first[n]])]

\* ... and the value under key k: the last name with that key
DictGet(list, k) ==
    list[CHOOSE i \in 1..Len(list) :
            /\ normcase(list[i]) = k
            /\ \A j \in (i + 1)..Len(list) : normcase(list[j]) # k]

MapGet(list, keys) == [n \in 1..Len(keys) |-> DictGet(list, keys[n])]

\* lines 158-160: the three lists from the two dicts
Partition(nd) ==
    LET a == DictKeys(nd.left_list)
        b == DictKeys(nd.right_list)
    IN  [nd EXCEPT
            !.common = MapGet(nd.left_list, SelectSeq(a, LAMBDA k : InSeq(b, k))),
            !.left_only = MapGet(nd.left_list, SelectSeq(a, LAMBDA k : ~InSeq(b, k))),
            !.right_only = MapGet(nd.right_list, SelectSeq(b, LAMBDA k : ~InSeq(a, k))),
            !.has = @ \cup {"common", "left_only", "right_only"}]

\* phase1 once self.right_list was read with outcome r
Phase1Names(r) ==
    IF r.exc # "none" THEN r
    ELSE Res(Finished(Partition(r.nd), 1), r.cache, "none")

\* phase1 once self.left_list was read with outcome r
Phase1Right(r) ==
    IF r.exc # "none" THEN r
    ELSE Phase1Names(Get0(r.nd, r.cache, "right_list"))

\* phase1: common, left_only, right_only
phase1(nd, c) == Phase1Right(Get0(Started(nd, 1), c, "left_list"))

Get1(nd, c, attr) == IF attr \in nd.has THEN Res(nd, c, "none") ELSE phase1(nd, c)

\* the list phase2 appends the common name x to
Classify(nd, x) ==
    LET a_path == join(nd.left, x)
        b_path == join(nd.right, x)
    IN  IF ~StatOk(a_path) \/ ~StatOk(b_path) THEN "funny"
        ELSE IF EntryOf(a_path).kind # EntryOf(b_path).kind THEN "funny"
        ELSE IF EntryOf(a_path).kind = "DIR" THEN "dir"
        ELSE IF EntryOf(a_path).kind = "REG" THEN "file"
        ELSE "funny"

\* the loop of phase2 over self.common
Classified(nd) ==
    [nd EXCEPT
        !.common_dirs = SelectSeq(nd.common, LAMBDA x : Classify(nd, x) = "dir"),
        !.common_files = SelectSeq(nd.common, LAMBDA x : Classify(nd, x) = "file"),
        !.common_funny = SelectSeq(nd.common, LAMBDA x : Classify(nd, x) = "funny")]

\* phase2 once self.common was read with outcome r
Phase2Loop(r) ==
    IF r.exc # "none" THEN r
    ELSE Res(Finished(Classified(r.nd), 2), r.cache, "none")

\* phase2: common_dirs, common_files, common_funny; the three lists are set
\* to [] before self.common is read
phase2(nd, c) ==
    Phase2Loop(Get1([Started(nd, 2) EXCEPT
                        !.common_dirs = <<>>, !.common_files = <<>>,
                        !.common_funny = <<>>,
                        !.has = @ \cup {"common_dirs", "common_files",
                                         "common_funny"}],
                    c, "common"))

Get2(nd, c, attr) == IF attr \in nd.has THEN Res(nd, c, "none") ELSE phase2(nd, c)

\* line 199: the three lists cmpfiles returned as xx, or its exception
Phase3Store(nd, xx) ==
    [nd |-> IF xx.exc # "none" THEN nd
            ELSE Finished(
                    [nd EXCEPT
                        !.same_files = xx.same, !.diff_files = xx.diff,
                        !.funny_files = xx.funny,
                        !.has = @ \cup {"same_files", "diff_files", "funny_files"}],
                    3),
     cache |-> xx.cache, exc |-> xx.exc, reads |-> xx.reads, looked |-> xx.looked]

\* a variant: phase3 calling cmpfiles with shallow=False
Phase3Deep == FALSE

\* the mode in which phase3 calls cmpfiles: its default, shallow=True
Phase3Shallow == TRUE

\* phase3 once self.common_files was read with outcome r
Phase3Cmp(r) ==
    IF r.exc # "none" THEN r
    ELSE Phase3Store(r.nd, cmpfiles(r.cache, r.nd.left, r.nd.right,
                                    r.nd.common_files, Phase3Shallow))

\* phase3: same_files, diff_files, funny_files, by cmpfiles
phase3(nd, c) == Phase3Cmp(Get2(Started(nd, 3), c, "common_files"))

\* phase4 once self.common_dirs was read with outcome r: one new dircmp per
\* common directory, keyed by its name (the objects are made by NodesAfter)
Phase4Loop(r) ==
    IF r.exc # "none" THEN r
    ELSE Res(Finished([r.nd EXCEPT !.subdirs = r.nd.common_dirs], 4),
             r.cache, "none")

\* phase4: subdirs, set to {} before self.common_dirs is read
phase4(nd, c) ==
    Phase4Loop(Get2([Started(nd, 4) EXCEPT
                        !.subdirs = <<>>, !.has = @ \cup {"subdirs"}],
                    c, "common_dirs"))

\* dircmp.__getattr__(attr), called when the object has no such attribute
getattr_missing(nd, c, attr) ==
    CASE methodmap(attr) = 0 -> phase0(nd, c)
      [] methodmap(attr) = 1 -> phase1(nd, c)
      [] methodmap(attr) = 2 -> phase2(nd, c)
      [] methodmap(attr) = 3 -> phase3(nd, c)
      [] methodmap(attr) = 4 -> phase4(nd, c)

\* a variant that runs the phase at every read, stored attribute or not
GetAttrAlways(nd, c, attr) == getattr_missing(nd, c, attr)

\* a read of self.attr
GetAttr(nd, c, attr) ==
    IF attr \in nd.has THEN Res(nd, c, "none") ELSE getattr_missing(nd, c, attr)

\* the attributes report_mod reads, in its order; it sorts each in place
ReportAttrs ==
    <<"left_only", "right_only", "same_files", "diff_files", "funny_files",
      "common_dirs", "common_funny">>

\* "if self.attr: self.attr.sort()", g the outcome of the read of self.attr
\* and r the outcome of report_mod before it
ReportSort(r, g, attr) ==
    [g EXCEPT
        !.nd = IF g.exc = "none" THEN [g.nd EXCEPT ![attr] = Sort(@)] ELSE @,
        !.reads = @ + r.reads,
        !.looked = @ \/ r.looked]

RECURSIVE ReportFrom(_, _)
\* report_mod from its i-th attribute, r the outcome so far
ReportFrom(r, i) ==
    IF i > Len(ReportAttrs) \/ r.exc # "none" THEN r
    ELSE ReportFrom(ReportSort(r, GetAttr(r.nd, r.cache, ReportAttrs[i]),
                               ReportAttrs[i]),
                    i + 1)

\* report_mod(file), after it wrote the two directories' names
report_mod(nd, c) == ReportFrom(Res(nd, c, "none"), 1)

\* dircmp(a_x, b_x, self.ignore, self.hide), the child phase4 makes for x
ChildNode(nd, x) == NewNode(join(nd.left, x), join(nd.right, x), nd.ignore, nd.hide)

\* the objects after an operation on the object id that left it as nd: when
\* phase4 completed in it, the children it made are new objects
NodesAfter(id, nd) ==
    LET kids == IF nd.done[4] > nodes[id].done[4] THEN Range(nd.subdirs) ELSE {}
    IN  [p \in DOMAIN nodes \cup {join(id, x) : x \in kids} |->
            IF p = id THEN nd
            ELSE IF p \in DOMAIN nodes THEN nodes[p]
            ELSE ChildNode(nd, p[Len(p)])]

\* no phase of the object has been invoked MaxRuns times
MayRun(id) == \A k \in 0..4 : nodes[id].runs[k] < MaxRuns

\* the state after an operation on the object id with outcome r
Outcome(id, r) ==
    /\ nodes' = NodesAfter(id, r.nd)
    /\ _cache' = r.cache
    /\ acc' = [exc |-> r.exc, reads |-> r.reads, looked |-> r.looked]

\* a caller reads a computed attribute of the object id
ReadAttr(id, attr) ==
    /\ id \in DOMAIN nodes
    /\ MayRun(id)
    /\ Outcome(id, GetAttr(nodes[id], _cache, attr))
    /\ UNCHANGED <<platform, fs, call, cf, cursor, walk>>

\* a caller calls report_mod of the object id
ReportMod(id) ==
    /\ id \in DOMAIN nodes
    /\ MayRun(id)
    /\ Outcome(id, report_mod(nodes[id], _cache))
    /\ UNCHANGED <<platform, fs, call, cf, cursor, walk>>

\* the record of a call of cmpfiles with outcome r
CfOutcome(common, shallow, r) ==
    /\ _cache' = r.cache
    /\ cf' = [op |-> "cmpfiles", shallow |-> shallow, common |-> common,
              exc |-> r.exc, same |-> r.same, diff |-> r.diff,
              funny |-> r.funny, reads |-> r.reads, looked |-> r.looked]

\* a caller calls cmpfiles(a, b, common, shallow)
CmpFilesCall(a, b, common, shallow) ==
    /\ CfOutcome(common, shallow, cmpfiles(_cache, a, b, common, shallow))
    /\ UNCHANGED <<platform, fs, call, cursor, nodes, acc, walk>>

-----------------------------------------------------------------------------
(* SpecDir: one dircmp object on a pair of directories L and R holding the  *)
(* names .git, A and a; a caller reads its attributes in any order.         *)

Root == <<>>
LeftDir == <<"L">>
RightDir == <<"R">>
DirNames == {".git", "A", "a"}

\* the paths of a pair of directories with the given names in each
PairPaths(names) ==
    {LeftDir, RightDir} \cup {join(d, n) : d \in {LeftDir, RightDir}, n \in names}

\* readable regular files of 0..n bytes, all bytes 0
PlainFiles(n) == {RegEntry(k, {}, 1, TRUE) : k \in 0..n}

\* a directory that does not exist
NoSide(names) == [exists |-> FALSE, at |-> [n \in names |-> NoEntry]]

\* on nt no directory holds two names that differ in case only
CaseOk(pf, at) ==
    pf = "nt" =>
        \A n \in DOMAIN at : \A m \in DOMAIN at :
            (n # m /\ at[n].kind # "none" /\ at[m].kind # "none")
                => Lower(n) # Lower(m)

\* the contents of one directory of SpecDir: missing, or .git a directory
\* or absent, A a one-byte file or absent, a anything
DirSides(pf) ==
    {NoSide(DirNames)} \cup
    {s \in {[exists |-> TRUE,
             at |-> [n \in DirNames |->
                        IF n = ".git" THEN g ELSE IF n = "A" THEN b ELSE a]] :
                g \in {NoEntry, DirEntry(TRUE)},
                b \in {NoEntry, RegEntry(1, {}, 1, TRUE)},
                a \in {NoEntry, NoStatEntry, DirEntry(TRUE), OtherEntry}
                          \cup PlainFiles(MaxDirSize)} :
        CaseOk(pf, s.at)}

\* the file system of the pair of directories with contents l and r
PairFs(names, l, r) ==
    [p \in PairPaths(names) |->
        LET side == IF p[1] = LeftDir[1] THEN l ELSE r
        IN  IF Len(p) = 1
                THEN (IF side.exists THEN DirEntry(TRUE) ELSE NoEntry)
                ELSE side.at[p[2]]]

InitDir ==
    /\ platform \in {"posix", "nt"}
    /\ \E l \in DirSides(platform), r \in DirSides(platform) :
          fs = PairFs(DirNames, l, r)
    /\ _cache = EmptyCache
    /\ call = NoCall
    /\ cf = NoCf
    /\ cursor = 0
    /\ \E o \in {<<DEFAULT_IGNORES, DefaultHide>>, <<<<>>, <<"A">>>>} :
          nodes = [p \in {Root} |-> NewNode(LeftDir, RightDir, o[1], o[2])]
    /\ acc = NoAcc
    /\ walk = NoWalk

ReadAny == \E attr \in Attrs : ReadAttr(Root, attr)

NextDir == ReadAny \/ ReportMod(Root)

SpecDir == InitDir /\ [][NextDir]_vars

-----------------------------------------------------------------------------
(* SpecFiles: the directories L and R hold the names A and a; a caller      *)
(* calls cmpfiles(L, R, [A, a]) in either mode, reads the attributes of the *)
(* dircmp object and clears the cache, in any order.                        *)

FileNames == {"A", "a"}

\* the contents of one directory of SpecFiles: A absent or a file of 0 or 1
\* bytes; a absent, not stat-able, a directory, a file of 0..MaxDirSize
\* bytes, or a one-byte file that cannot be opened
FileSides ==
    {[exists |-> TRUE,
      at |-> [n \in FileNames |-> IF n = "A" THEN b ELSE a]] :
        b \in {NoEntry} \cup PlainFiles(1),
        a \in {NoEntry, NoStatEntry, DirEntry(TRUE), RegEntry(1, {}, 1, FALSE)}
                  \cup PlainFiles(MaxDirSize)}

InitFiles ==
    /\ platform = "posix"
    /\ \E l \in FileSides, r \in FileSides : fs = PairFs(FileNames, l, r)
    /\ _cache = EmptyCache
    /\ call = NoCall
    /\ cf = NoCf
    /\ cursor = 0
    /\ nodes = [p \in {Root} |->
                   NewNode(LeftDir, RightDir, DEFAULT_IGNORES, DefaultHide)]
    /\ acc = NoAcc
    /\ walk = NoWalk

CmpFilesAny ==
    \E shallow \in BOOLEAN : CmpFilesCall(LeftDir, RightDir, <<"A", "a">>, shallow)

ClearCacheCall == clear_cache /\ UNCHANGED cursor

NextFiles == CmpFilesAny \/ ReadAny \/ ReportMod(Root) \/ ClearCacheCall

SpecFiles == InitFiles /\ [][NextFiles]_vars

-----------------------------------------------------------------------------
(* SpecTree: report_full_closure on two directory trees.  Each tree holds   *)
(* d (a directory or absent), e (an empty directory, a file or absent) and  *)
(* f (a file or absent); d holds d (an empty directory or absent) and f.    *)

TreeNames == {"d", "e", "f"}

\* what a directory d of a tree holds
SubSides ==
    {[d |-> x, f |-> y] :
        x \in {NoEntry, DirEntry(TRUE)}, y \in {NoEntry} \cup PlainFiles(1)}

\* one tree: sub is what its d holds, when d is a directory
TreeSides ==
    {[d |-> NoEntry, e |-> y, f |-> z, sub |-> [d |-> NoEntry, f |-> NoEntry]] :
        y \in {NoEntry, DirEntry(TRUE), RegEntry(1, {}, 1, TRUE)},
        z \in {NoEntry} \cup PlainFiles(1)}
    \cup
    {[d |-> DirEntry(TRUE), e |-> y, f |-> z, sub |-> u] :
        y \in {NoEntry, DirEntry(TRUE), RegEntry(1, {}, 1, TRUE)},
        z \in {NoEntry} \cup PlainFiles(1),
        u \in SubSides}

TreePaths(top) ==
    {top} \cup {join(top, n) : n \in TreeNames}
          \cup {join(join(top, "d"), n) : n \in {"d", "f"}}

\* the file system of the trees l (under L) and r (under R)
TreeFs(l, r) ==
    [p \in TreePaths(LeftDir) \cup TreePaths(RightDir) |->
        LET t == IF p[1] = LeftDir[1] THEN l ELSE r
        IN  IF Len(p) = 1 THEN DirEntry(TRUE)
            ELSE IF Len(p) = 2 THEN t[p[2]]
            ELSE t.sub[p[3]]]

InitTree ==
    /\ platform = "posix"
    /\ \E l \in TreeSides, r \in TreeSides : fs = TreeFs(l, r)
    /\ _cache = EmptyCache
    /\ call = NoCall
    /\ cf = NoCf
    /\ cursor = 0
    /\ \E o \in {<<DEFAULT_IGNORES, DefaultHide>>, <<<<"e">>, <<>>>>} :
          nodes = [p \in {Root} |-> NewNode(LeftDir, RightDir, o[1], o[2])]
    /\ acc = NoAcc
    /\ walk = NoWalk

\* the state after report_full_closure's visit of the object id: r is the
\* outcome of its report_mod and of its read of self.subdirs; the children
\* are visited next, before what was left to visit
Visited(id, r) ==
    /\ Outcome(id, r)
    /\ walk' =
          IF r.exc # "none"
              THEN [status |-> "raised", stack |-> <<>>,
                    out |-> Append(walk.out, <<nodes[id].left, nodes[id].right>>)]
          ELSE LET rest == [i \in 1..Len(r.nd.subdirs) |-> join(id, r.nd.subdirs[i])]
                               \o Tail(walk.stack)
               IN  [status |-> IF rest = <<>> THEN "returned" ELSE "running",
                    stack |-> rest,
                    out |-> Append(walk.out, <<nodes[id].left, nodes[id].right>>)]

\* report_mod, then the read of self.subdirs of "for sd in self.subdirs.values()"
ReportThenSubdirs(r) ==
    IF r.exc # "none" THEN r ELSE GetAttr(r.nd, r.cache, "subdirs")

\* a caller calls report_full_closure(file) on the root object
CallReportFullClosure ==
    /\ walk.status = "idle"
    /\ walk' = [status |-> "running", stack |-> <<Root>>, out |-> <<>>]
    /\ UNCHANGED <<platform, fs, _cache, call, cf, cursor, nodes, acc>>

\* report_full_closure reaches the next object: it writes the object's two
\* directories, runs report_mod and reads self.subdirs
VisitNext ==
    /\ walk.status = "running"
    /\ Visited(Head(walk.stack),
               ReportThenSubdirs(report_mod(nodes[Head(walk.stack)], _cache)))
    /\ UNCHANGED <<platform, fs, call, cf, cursor>>

NextTree == CallReportFullClosure \/ VisitNext

SpecTree == InitTree /\ [][NextTree]_vars

-----------------------------------------------------------------------------
(* Claims about cmp. *)

\* the last call was cmp on two regular files that os.stat can read
CmpOnRegular ==
    /\ call.op = "cmp"
    /\ StatOk(call.f1) /\ StatOk(call.f2)
    /\ EntryOf(call.f1).kind = "REG" /\ EntryOf(call.f2).kind = "REG"

\* the two byte sequences are identical
SameBytes(e1, e2) == e1.size = e2.size /\ e1.ones = e2.ones

\* C3: for two regular files of sizes sA >= 0 and sB > 0, cmp in shallow mode
\* returns True exactly when 4*sB <= 5*sA and 4*sA <= 5*sB, whatever the
\* contents and the modification times, and reads no content in either case.
C3_ShallowSizeRatio ==
    (CmpOnRegular /\ call.shallow /\ EntryOf(call.f2).size > 0) =>
        LET sA == EntryOf(call.f1).size
            sB == EntryOf(call.f2).size
        IN  /\ call.exc = "none"
            /\ call.reads = 0
            /\ call.ret <=> (4 * sB <= 5 * sA /\ 4 * sA <= 5 * sB)

\* a shallow call on files of 4 and 5 bytes (ratio 0.8) with different
\* modification times returned True
C3_Witness ==
    /\ CmpOnRegular /\ call.shallow
    /\ EntryOf(call.f1).size = 4 /\ EntryOf(call.f2).size = 5
    /\ EntryOf(call.f1).mtime # EntryOf(call.f2).mtime
    /\ call.ret /\ call.exc = "none"

C5_SignatureMismatchFalse ==
    (/\ CmpOnRegular /\ ~call.shallow
     /\ _sig(EntryOf(call.f1)) # _sig(EntryOf(call.f2))) =>
        (call.exc = "none" /\ ~call.ret /\ call.reads = 0)

\* C5 amended: in deep mode on two regular files, different sizes make cmp
\* return False without reading content or consulting the cache; with equal
\* sizes a difference in the modification time decides nothing: two readable
\* files are equal exactly when their bytes are.
C5_SizeMismatchFalse ==
    (CmpOnRegular /\ ~call.shallow) =>
        LET e1 == EntryOf(call.f1)
            e2 == EntryOf(call.f2)
        IN  /\ e1.size # e2.size =>
                (call.exc = "none" /\ ~call.ret /\ call.reads = 0 /\ ~call.looked)
            /\ (e1.size = e2.size /\ e1.mtime # e2.mtime /\ e1.open /\ e2.open) =>
                (call.exc = "none" /\ (call.ret <=> e1.ones = e2.ones))

\* a deep call on files of 4 and 5 bytes returned False without a read
C5_Witness ==
    /\ CmpOnRegular /\ ~call.shallow
    /\ EntryOf(call.f1).size = 4 /\ EntryOf(call.f2).size = 5
    /\ ~call.ret /\ call.reads = 0 /\ ~call.looked

\* C6 as stated: the cache never holds more than 100 entries.
C6_CacheAtMost100 == Cardinality(DOMAIN _cache) <= CacheLimit

\* what the code keeps: at most 101 entries; the insert that finds 101
\* entries clears them and leaves one
C6_CacheAtMost101 == Cardinality(DOMAIN _cache) <= CacheLimit + 1

-----------------------------------------------------------------------------
(* Claims about one dircmp object. *)

\* the names os.listdir gives for a directory that are not in hide+ignore
Shown(nd, dir) == {n \in Range(listdir(dir)) : ~InSeq(nd.hide \o nd.ignore, n)}

Disjoint3(x, y, z) ==
    /\ Range(x) \cap Range(y) = {}
    /\ Range(x) \cap Range(z) = {}
    /\ Range(y) \cap Range(z) = {}
    /\ NoDup(x) /\ NoDup(y) /\ NoDup(z)

\* common_dirs, common_files and common_funny partition common
ClassesPartition(nd) ==
    /\ Disjoint3(nd.common_dirs, nd.common_files, nd.common_funny)
    /\ Range(nd.common_dirs) \cup Range(nd.common_files)
          \cup Range(nd.common_funny) = Range(nd.common)

\* C1 as stated: once both listings succeeded, left_only, right_only and
\* common are pairwise disjoint and their union is exactly the set of names
\* of either listing that are not in hide+ignore; common_dirs, common_files
\* and common_funny partition common.
C1_PartitionsExactUnion ==
    LET nd == nodes[Root]
    IN  /\ nd.done[1] >= 1 =>
            /\ Disjoint3(nd.left_only, nd.right_only, nd.common)
            /\ Range(nd.left_only) \cup Range(nd.right_only) \cup Range(nd.common)
                  = Shown(nd, nd.left) \cup Shown(nd, nd.right)
        /\ nd.done[2] >= 1 => ClassesPartition(nd)

\* C1 amended: the three lists are pairwise disjoint; common and left_only
\* together are the shown names of the left listing, common those that a
\* shown right name equals after os.path.normcase; right_only is the shown
\* right names that no shown left name equals after os.path.normcase; no
\* name of hide+ignore is in a list; common_dirs, common_files and
\* common_funny partition common.
C1_PartitionsUpToCase ==
    LET nd == nodes[Root]
        l == Shown(nd, nd.left)
        r == Shown(nd, nd.right)
    IN  /\ nd.done[1] >= 1 =>
            /\ Disjoint3(nd.left_only, nd.right_only, nd.common)
            /\ Range(nd.common) =
                  {n \in l : \E m \in r : normcase(m) = normcase(n)}
            /\ Range(nd.left_only) = l \ Range(nd.common)
            /\ Range(nd.right_only) =
                  {m \in r : \A n \in l : normcase(m) # normcase(n)}
            /\ platform = "posix" =>
                  Range(nd.left_only) \cup Range(nd.right_only)
                      \cup Range(nd.common) = l \cup r
            /\ \A n \in Range(nd.hide \o nd.ignore) :
                  n \notin Range(nd.left_only) \cup Range(nd.right_only)
                               \cup Range(nd.common)
        /\ nd.done[2] >= 1 => ClassesPartition(nd)

\* on nt, with A in the left directory, a in the right one and .git in both,
\* the lists are computed: A is common and a is in no list
C1_Witness ==
    LET nd == nodes[Root]
    IN  /\ platform = "nt"
        /\ nd.done[2] >= 1
        /\ nd.ignore = DEFAULT_IGNORES
        /\ ".git" \in Range(listdir(nd.left)) \cap Range(listdir(nd.right))
        /\ "a" \in Range(listdir(nd.right))
        /\ nd.common = <<"A">>

\* C2 as stated: whatever the common files are, phase3 completes and
\* same_files, diff_files and funny_files partition common_files.
C2_Phase3Partitions ==
    LET nd == nodes[Root]
    IN  (nd.done[2] >= 1 /\ nd.runs[3] >= 1) =>
            /\ nd.done[3] >= 1
            /\ Disjoint3(nd.same_files, nd.diff_files, nd.funny_files)
            /\ Range(nd.same_files) \cup Range(nd.diff_files)
                  \cup Range(nd.funny_files) = Range(nd.common_files)

\* what the code keeps: a phase3 that completed left a partition
C2_CompletedPartitions ==
    LET nd == nodes[Root]
    IN  (nd.done[2] >= 1 /\ nd.done[3] >= 1) =>
            /\ Disjoint3(nd.same_files, nd.diff_files, nd.funny_files)
            /\ Range(nd.same_files) \cup Range(nd.diff_files)
                  \cup Range(nd.funny_files) = Range(nd.common_files)

\* the attributes a phase stores
PhaseAttrs(k) == {a \in Attrs : methodmap(a) = k}

-----------------------------------------------------------------------------
(* Claims about cmpfiles, the cache and report_full_closure. *)

\* the comparison of the name x by cmpfiles(L, R, ., shallow) fails: a stat
\* fails, or in deep mode the files have to be read and one cannot be opened
FailsIn(x, shallow) ==
    LET ax == join(LeftDir, x)
        bx == join(RightDir, x)
    IN  \/ ~StatOk(ax) \/ ~StatOk(bx)
        \/ /\ ~shallow
           /\ EntryOf(ax).kind = "REG" /\ EntryOf(bx).kind = "REG"
           /\ EntryOf(ax).size = EntryOf(bx).size
           /\ ~(EntryOf(ax).open /\ EntryOf(bx).open)

\* C7 as stated: a failing stat or read of one common name does not leave
\* the comparison: that name is put in common_funny (classification) or in
\* funny_files (file comparison).
C7_FailureIsolated ==
    /\ nodes[Root].done[2] >= 1 =>
          \A x \in Range(nodes[Root].common) :
              (~StatOk(join(LeftDir, x)) \/ ~StatOk(join(RightDir, x)))
                  => x \in Range(nodes[Root].common_funny)
    /\ cf.op = "cmpfiles" =>
          \A x \in Range(cf.common) :
              FailsIn(x, cf.shallow) => (cf.exc = "none" /\ x \in Range(cf.funny))

\* what the code keeps: a cmpfiles that returned put the failing names, and
\* only them, in its third list
C7_IsolatedWhenReturned ==
    (cf.op = "cmpfiles" /\ cf.exc = "none") =>
        Range(cf.funny) = {x \in Range(cf.common) : FailsIn(x, cf.shallow)}

\* C10: a shallow comparison reads no content and does not reach the cache;
\* the operations of a dircmp object leave the cache as it is; the cache
\* changes only by a deep comparison or by clear_cache.
C10_ShallowLeavesCache ==
    [][/\ cf'.shallow => (cf'.reads = 0 /\ ~cf'.looked)
       /\ (acc'.reads = 0 /\ ~acc'.looked)
       /\ (cf' # cf /\ cf'.shallow) => _cache' = _cache
       /\ (nodes' # nodes \/ acc' # acc) => _cache' = _cache
       /\ _cache' # _cache =>
             \/ /\ cf'.op = "cmpfiles" /\ ~cf'.shallow
                /\ UNCHANGED <<nodes, acc>>
             \/ /\ _cache' = EmptyCache /\ call'.op = "clear_cache"
                /\ UNCHANGED <<nodes, acc, cf>>]_vars

\* the cache holds the outcome of a deep comparison, and phase3 of the
\* dircmp object has compared a common file and found it the same
C10_Witness ==
    /\ _cache # EmptyCache
    /\ nodes[Root].done[3] >= 1
    /\ nodes[Root].same_files # <<>>
    /\ cf.op = "cmpfiles" /\ cf.shallow

\* the relative paths all of whose components are common directories that
\* the object's ignore and hide lists let through
ClosurePaths ==
    LET skip == Range(nodes[Root].hide \o nodes[Root].ignore)
        both(p) == /\ p[Len(p)] \notin skip
                   /\ LeftDir \o p \in DOMAIN fs /\ RightDir \o p \in DOMAIN fs
                   /\ fs[LeftDir \o p].kind = "DIR" /\ fs[RightDir \o p].kind = "DIR"
    IN  {<<>>} \cup {<<n>> : n \in {m \in TreeNames : both(<<m>>)}}
               \cup UNION {{<<n, m>> : m \in {k \in TreeNames : both(<<n, k>>)}} :
                               n \in {k \in TreeNames : both(<<k>>)}}

\* the walk reported every pair of ClosurePaths once and nothing else, each
\* after its parent, and every object has the root's ignore and hide lists
ReportedAll ==
    /\ NoDup(walk.out)
    /\ Range(walk.out) = {<<LeftDir \o p, RightDir \o p>> : p \in ClosurePaths}
    /\ \A i \in 1..Len(walk.out) : \A j \in 1..Len(walk.out) :
          (/\ Len(walk.out[j][1]) = Len(walk.out[i][1]) + 1
           /\ SubSeq(walk.out[j][1], 1, Len(walk.out[i][1])) = walk.out[i][1])
              => i < j
    /\ \A p \in DOMAIN nodes :
          /\ nodes[p].ignore = nodes[Root].ignore
          /\ nodes[p].hide = nodes[Root].hide

\* C8 as stated: on trees whose directories can all be listed,
\* report_full_closure ends having reported each pair of common directories
\* once, parents first, the children with the parent's ignore and hide.
C8_FullClosureReportsAll ==
    walk.status \in {"returned", "raised"} =>
        (walk.status = "returned" /\ ReportedAll)

\* what the code keeps: a report_full_closure that returned reported them all
C8_ReturnedReportsAll == walk.status = "returned" => ReportedAll

====
